---- MODULE Spec2Model ----
(***************************************************************************)
(* Dispatcher Node of skiff-dispatcher (lib/index.js, latest revision):    *)
(* getsetnx / update / del routing over a gossip store, the callback       *)
(* queue that coalesces callers, lazily created peer connections and the   *)
(* membership events that drive them.                                      *)
(*                                                                         *)
(* A node is one single-threaded process.  Every action below is one turn  *)
(* of a node's event loop (an API call, a setImmediate callback, an        *)
(* incoming RPC message, a membership or transport event).                 *)
(***************************************************************************)
EXTENDS Integers, Sequences, FiniteSets, TLC

\* ------------------------------------------------------------------ bounds
MaxCalls == 2       \* API calls over all nodes (Spec)
MaxLocalCalls == 3  \* API calls, all on one node (SpecLocal)
MaxElectCalls == 1  \* API calls while elections go on (SpecElect)
MaxProbeCalls == 1  \* API calls with arbitrary inputs (SpecBoundary)
MaxChainCalls == 1  \* API calls while forwards chain up (SpecChain)
MaxValueCalls == 2  \* API calls with every kind of value (SpecValues)
MaxAsyncCalls == 2  \* API calls on every path to a completion (SpecAsync)
MaxLagCalls == 3    \* update calls while replication lags (SpecLag)
MaxKeyCalls == 2    \* API calls on two operation keys (SpecKeys)
MaxTopoCalls == 2   \* API calls while peers leave and join (SpecTopology)
MaxWrites == 2      \* cluster.set calls on one key over all nodes (gossip timestamps)
MaxHops == 2        \* forwarded RPCs chained behind one another
MaxConns == 2       \* Peer objects a node creates

\* ------------------------------------------------------------- the values
Nodes == {"A", "B"}
UNDEF == "undefined"
NULL == "null"
\* stand-in for a resourceId / resourceType that is not a string (the number 7)
NonStrings == {"#7"}
IsString(v) == v \notin NonStrings

\* resource types bound with Node.attachRemoteCall before the nodes were built
Registered == {"counter"}
\* own properties of Node.prototype._allowedRemoteCalls
OwnAllowed == {"getsetnx", "update"} \cup Registered
\* _allowedRemoteCalls is an object literal: a lookup also finds what it
\* inherits from Object.prototype, and those values are truthy
ObjectPrototype == {"constructor", "toString", "valueOf", "hasOwnProperty"}

\* this._allowedRemoteCalls[resourceType], as a truth value
AllowedLookup(rtype) == rtype \in OwnAllowed \cup ObjectPrototype

\* what Node.prototype defines itself
NodePrototype ==
    {"_allowedRemoteCalls", "ok", "getsetnx", "del", "update", "join", "leave", "open",
     "close", "_remoteCall", "_remote", "peerOnline", "randomPeerOrSelf", "_waitForNode",
     "_onPeerJoined", "_onLeader", "_removePeerGossip", "_gossipLeader",
     "_transportListening", "_proxyError", "_onGossipClusterChange"}
\* what Node.prototype inherits from EventEmitter.prototype
EventEmitterPrototype ==
    {"emit", "on", "once", "addListener", "removeListener", "removeAllListeners",
     "listeners", "setMaxListeners"}
\* the names and the functions attachRemoteCall is called with
AttachNames == {"counter", "lock", "getsetnx", "del", "close", "ok", "emit", "toString"}
Handlers == {"h1", "h2"}
PropertyNames ==
    NodePrototype \cup EventEmitterPrototype \cup ObjectPrototype \cup AttachNames
\* Node.prototype[name] once index.js is loaded: a function of the module, a
\* member it inherits, or undefined
PrototypeLoaded ==
    [name \in PropertyNames |->
        IF name \in NodePrototype THEN "own"
        ELSE IF name \in EventEmitterPrototype \cup ObjectPrototype THEN "inherited"
        ELSE UNDEF]
\* the parts close() shuts down, and the states of one
Components == {"listener", "gossip", "skiff"}
NotListening == [listening |-> FALSE, names |-> {}, since |-> {}]

\* [ resourceType, resourceId ].join('~')
OpKey(rtype, rid) == rtype \o "~" \o rid

\* inputs the embedders draw from
ResourceIds == {"x", "", "#7"}
ResourceTypes == {"counter", "bogus", "constructor", "getsetnx", "update", "#7"}
\* args lists: [], ['a'], [[]]  (an element is a scalar or an array)
ArgLists == {<<>>, <<"a">>, <<"[]">>}
UpdateValues == {"v1", UNDEF}
HandlerResults == {"v1"}

\* the operation keys the inputs can form; the store and the callback
\* queue are maps over them
\* two resource ids that form two operation keys of one resource type
KeyIds == {"x", "y"}
OpKeys == {OpKey(t, i) : t \in ResourceTypes, i \in ResourceIds \cup KeyIds}
StoreKeys == {"leader"} \cup OpKeys

\* what the parameter `args` of getsetnx is bound to
ArrayArgs(l) == [isArr |-> TRUE, l |-> l]
NotArray == [isArr |-> FALSE, l |-> <<>>]
\* one element of an args list, seen as a value of its own
DecodeArg(code) ==
    CASE code = "[]" -> ArrayArgs(<<>>)
      [] code = "[[]]" -> ArrayArgs(<<"[]">>)
      [] OTHER -> NotArray

\* results handed to a callback: (err) or (null, value)
Ok(v) == [err |-> "none", val |-> v]
Err(e) == [err |-> e, val |-> UNDEF]
NoRes == [err |-> "none", val |-> UNDEF]

\* A callback is a stack of frames.  The top frame says what calling it does:
\*   user   - the embedder's `next` of API call `id`
\*   queued - the function callbackQueue.add returned for `key`
\*   reply  - the transport's responder: sends the result back to node `to`,
\*            where the rest of the stack is called (id: ghost, the pending
\*            operation of `to` the forwarded call belongs to, or 0)
\* The empty stack is a value that is not a function.
User(i) == [t |-> "user", id |-> i, key |-> "", to |-> ""]
Queued(k) == [t |-> "queued", id |-> 0, key |-> k, to |-> ""]
Reply(m, op) == [t |-> "reply", id |-> op, key |-> "", to |-> m]
NotFn == <<>>
IsFn(cb) == cb # <<>>

RECURSIVE Hops(_)
Hops(cb) == IF cb = <<>> THEN 0
            ELSE (IF Head(cb).t = "reply" THEN 1 ELSE 0) + Hops(Tail(cb))

\* setImmediate tasks (op: ghost, the pending operation a forward belongs to)
DeliverTask(cb, res) ==
    [t |-> "deliver", cb |-> cb, res |-> res, node |-> "", method |-> "", params |-> <<>>,
     op |-> 0]
RemoteCallTask(node, method, params, cb, op) ==
    [t |-> "remoteCall", cb |-> cb, res |-> NoRes, node |-> node, method |-> method,
     params |-> params, op |-> op]

VARIABLES
    elected,      \* Membership Provider: the node it elected leader, or "none"
    meta,         \* meta[n]: the peers skiff.peerMeta(n) has metadata for
    gossipPeers,  \* gossipPeers[n]: peers added to n's gossip cluster
    store,        \* store[n][k] = [val, ver]: n's copy of gossip.cluster; ver is
                  \* the timestamp of the write, later writes win
    queue,        \* queue[n][k]: callbackQueue of n's process, <<>> when absent
    remotes,      \* remotes[n][p]: this._remotes, index into conns[n] or 0
    conns,        \* conns[n]: the Peer objects n created
    tasks,        \* tasks[n]: n's setImmediate queue
    net,          \* RPC requests and responses in flight
    running,      \* handler invocations that have not called back yet
    calls,        \* the embedders' API calls and what their callbacks received
    ops,          \* ghost: every pending operation ever created: its node and
                  \* key, the args of the getsetnx that created it, whether the
                  \* node's 'leader' entry named the node then, the handler
                  \* invocations and RPCs started for it, whether its execution
                  \* has finished and whether its queue was resolved
    last,         \* ghost: last[n], the latest update/del call on n, while
                  \* nothing else wrote the key since
    allowed,      \* own keys of Node.prototype._allowedRemoteCalls
    proto,        \* proto[name]: Node.prototype[name]
    registered,   \* ghost: the names attachRemoteCall has accepted
    exposed,      \* exposed[n]: whether n's transport server listens, the
                  \* method names it was given, and (ghost) the names
                  \* registered when it was started
    parts,        \* parts[n][c]: component c of n is "running", "closing"
                  \* or "closed"
    closeLog,     \* ghost: closeLog[n], the stages of n's close() so far
    ev            \* ghost: what the latest turn did

envVars == <<elected, meta, gossipPeers>>
vars == <<elected, meta, gossipPeers, store, queue, remotes, conns, tasks, net,
          running, calls, ops, last, allowed, proto, registered, exposed, parts,
          closeLog, ev>>

\* the mutable world of a turn, threaded through the operators below
World ==
    [store |-> store, queue |-> queue, remotes |-> remotes,
     conns |-> conns, tasks |-> tasks, net |-> net, running |-> running,
     calls |-> calls, ops |-> ops, last |-> last,
     allowed |-> allowed, proto |-> proto, registered |-> registered,
     exposed |-> exposed, parts |-> parts, closeLog |-> closeLog, ev |-> ev]

Ev0(op, n) ==
    [op |-> op, node |-> n, peer |-> "", method |-> "", rid |-> "", rtype |-> "",
     val |-> "",
     args |-> <<>>, seenArgs |-> NotArray, seenNext |-> FALSE, call |-> 0,
     prev |-> "none", prevVal |-> "", prevWrote |-> FALSE, prevHad |-> "",
     read |-> FALSE, seen |-> "", readLeader |-> FALSE, wrote |-> FALSE, wroteKey |-> "",
     fast |-> FALSE, short |-> FALSE, attached |-> FALSE, created |-> FALSE,
     opid |-> 0, handler |-> FALSE, sched |-> FALSE, opened |-> FALSE,
     rpc |-> FALSE, selfCall |-> FALSE, cached |-> 0, gossipPort |-> FALSE, immediate |-> "", threw |-> FALSE, cbs |-> 0, resolved |-> 0]

Begin(op, n) == [World EXCEPT !.ev = Ev0(op, n)]

\* ghost: an update/del call that has not been called back yet notes
\* whether the copy of the node the Membership Provider elected holds the
\* value the call asked for
Observed(w) ==
    [i \in 1..Len(w.calls) |->
        LET c == w.calls[i]
        IN IF /\ c.verb \in {"update", "del"}
              /\ i > Len(calls) \/ calls[i].cnt = 0
              /\ elected \in Nodes
              /\ c.key \in StoreKeys
              /\ w.store[elected][c.key].val = c.val
           THEN [c EXCEPT !.held = TRUE]
           ELSE c]

Commit(w) ==
    /\ store' = w.store
    /\ queue' = w.queue
    /\ remotes' = w.remotes
    /\ conns' = w.conns
    /\ tasks' = w.tasks
    /\ net' = w.net
    /\ running' = w.running
    /\ calls' = Observed(w)
    /\ ops' = w.ops
    /\ last' = w.last
    /\ allowed' = w.allowed
    /\ proto' = w.proto
    /\ registered' = w.registered
    /\ exposed' = w.exposed
    /\ parts' = w.parts
    /\ closeLog' = w.closeLog
    /\ ev' = w.ev

\* what a turn may leave behind, so that the model stays finite
Bounded(w) ==
    /\ \A n \in Nodes, k \in StoreKeys : w.store[n][k].ver <= MaxWrites
    /\ \A n \in Nodes : Len(w.conns[n]) <= MaxConns
    /\ \A m \in w.net : Hops(m.cb) <= MaxHops

\* ------------------------------------------------------ the gossip cluster
ClusterGet(w, n, k) == IF k \in StoreKeys THEN w.store[n][k].val ELSE UNDEF

\* the timestamp a write made now gets: later than every write made so far
Now(w, k) ==
    LET S == {w.store[m][k].ver : m \in Nodes}
    IN 1 + CHOOSE v \in S : \A u \in S : u <= v

NoLast == [verb |-> "none", key |-> "", val |-> "", wrote |-> FALSE, had |-> "",
           leader |-> FALSE]

ClusterSet(w, n, k, v) ==
    [w EXCEPT !.store[n][k] = [val |-> v, ver |-> Now(w, k)],
              !.last[n] = IF w.last[n].key = k THEN NoLast ELSE @,
              !.ev.wrote = TRUE,
              !.ev.wroteKey = k]

\* ------------------------------------------------------- callback-queue
\* the pending operation of (n, key) that is current: the last one created
CurOp(w, n, key) ==
    LET S == {i \in 1..Len(w.ops) : w.ops[i].node = n /\ w.ops[i].key = key}
    IN IF S = {} THEN 0 ELSE CHOOSE i \in S : \A j \in S : j <= i

RECURSIVE PushAll(_, _, _, _)
PushAll(w, n, cbs, res) ==
    IF cbs = <<>> THEN w
    ELSE PushAll([w EXCEPT !.tasks[n] = Append(@, DeliverTask(Head(cbs), res))],
                 n, Tail(cbs), res)

\* queuedCallback(...): every queued callback is scheduled with the same
\* arguments, in arrival order, and the queue of the key is dropped
Resolve(w, n, key, res) ==
    IF w.queue[n][key] = <<>> THEN w
    ELSE PushAll([w EXCEPT !.queue[n][key] = <<>>,
                           !.ops[CurOp(w, n, key)].resolved = TRUE,
                           !.ev.resolved = Len(w.queue[n][key])],
                 n, w.queue[n][key], res)

\* calling the callback `cb` on node n with `res`
InvokeCb(w, n, cb, res) ==
    IF ~IsFn(cb) THEN [w EXCEPT !.ev.threw = TRUE]
    ELSE LET f == Head(cb) IN
         CASE f.t = "user" ->
                [w EXCEPT !.calls[f.id].cnt = @ + 1,
                          !.calls[f.id].res = res,
                          !.ev.cbs = @ + 1]
           [] f.t = "queued" -> Resolve(w, n, f.key, res)
           [] f.t = "reply" ->
                [w EXCEPT !.net = @ \cup {[t |-> "resp", to |-> f.to, method |-> "",
                                           params |-> <<>>, cb |-> Tail(cb),
                                           res |-> res, op |-> f.id]}]

SetImmediateNow(w, n, next, res) == InvokeCb(w, n, next, res)

\* setImmediate(next, err, value)
SetImmediate(w, n, next, res) ==
    IF ~IsFn(next) THEN [w EXCEPT !.ev.threw = TRUE]
    ELSE [w EXCEPT !.tasks[n] = Append(@, DeliverTask(next, res)),
                   !.ev.immediate = res.err]

\* ------------------------------------------------------------ validation
BadResourceIdNonString(rid) == ~IsString(rid)

\* typeof resourceId !== 'string' || !resourceId
BadResourceId(rid) == ~IsString(rid) \/ rid = ""
\* typeof resourceType !== 'string' || !this._allowedRemoteCalls[resourceType]
BadResourceType(rtype) == ~IsString(rtype) \/ ~AllowedLookup(rtype)

IsCachedNever(operationResult) == FALSE

\* operationResult !== null && operationResult !== undefined
IsCached(operationResult) == operationResult \notin {NULL, UNDEF}

IsSelfAlways(currentLeader, n) == TRUE
IsSelfNever(currentLeader, n) == FALSE

\* currentLeader === this.id
IsSelf(currentLeader, n) == currentLeader = n

SameValueNever(currentValue, value) == FALSE

\* currentValue === value
SameValue(currentValue, value) == currentValue = value

OwnerCallbackNext(key, next) == next

\* the completion the owner hands to the handler or to _remoteCall: the
\* function callbackQueue.add returned, not the caller's own `next`
OwnerCallback(key, next) == <<Queued(key)>>

HasPendingNever(w, n, key) == FALSE
HasPendingAnyKey(w, n, key) == \E k \in OpKeys : w.queue[n][k] # <<>>

\* callbackQueue.add found a queue under the key (it returns false, and
\* getsetnx returns without starting anything)
HasPending(w, n, key) == w.queue[n][key] # <<>>

\* args.unshift(resourceId, resourceType): the parameters of the forwarded call
ForwardParams(rid, rtype, args) == <<rid, rtype>> \o args

\* ------------------------------------------------------------- handlers
\* args.unshift(operationKey, resourceId): what the handler is applied to,
\* before the callback
HandlerParams(key, rid, args) == <<key, rid>> \o args

\* this[resourceType].apply(this, [operationKey, resourceId].concat(args, callback))
RECURSIVE Getsetnx(_, _, _, _, _, _)
RECURSIVE Update(_, _, _, _, _, _)
InvokeHandler(w, n, rtype, key, rid, args, callback, op) ==
    LET \* the parameters an own method is applied to: (operationKey,
        \* resourceId, args[0], args[1]) or, when args is shorter, the callback
        \* in the place after the last element
        third == IF Len(args) >= 1 THEN args[1] ELSE "function"
        fourth == IF Len(args) = 1 THEN callback ELSE NotFn
        own == [w EXCEPT !.ev.selfCall = TRUE]
    IN
    CASE rtype \in Registered ->
           [w EXCEPT !.running = @ \cup {[node |-> n, rtype |-> rtype, key |-> key,
                                          rid |-> rid, args |-> args,
                                          params |-> HandlerParams(key, rid, args),
                                          cb |-> callback, op |-> op]},
                     !.ops[op].handlers = @ + 1,
                     !.ev.handler = TRUE]
      \* Node.prototype.constructor is Node: called with a string for options,
      \* it throws at options.gossip.port before it calls anything back
      [] rtype = "constructor" -> [own EXCEPT !.ev.threw = TRUE]
      \* this.getsetnx / this.update are in _allowedRemoteCalls themselves:
      \* the node calls its own method with the operation key as resourceId
      \* and the resourceId as resourceType
      [] rtype = "getsetnx" -> Getsetnx(own, n, key, rid, DecodeArg(third), fourth)
      [] rtype = "update" -> Update(own, n, key, rid, third, fourth)

\* ------------------------------------------------------------- getsetnx
Getsetnx(w, n, rid, rtype, av, next) ==
    IF BadResourceId(rid) THEN SetImmediate(w, n, next, Err("resourceId"))
    ELSE IF BadResourceType(rtype) THEN SetImmediate(w, n, next, Err("notAllowed"))
    ELSE
    LET operationKey == OpKey(rtype, rid)
        operationResult == ClusterGet(w, n, operationKey)
        w1 == [w EXCEPT !.ev.read = TRUE, !.ev.seen = operationResult]
    IN
    IF IsCached(operationResult)
    THEN SetImmediate([w1 EXCEPT !.ev.fast = TRUE], n, next, Ok(operationResult))
    \* callbackQueue.add asserts that the callback is a function
    ELSE IF ~IsFn(next) THEN [w1 EXCEPT !.ev.threw = TRUE]
    ELSE IF HasPending(w1, n, operationKey)
    THEN [w1 EXCEPT !.queue[n][operationKey] = Append(@, next),
                    !.ev.attached = TRUE,
                    !.ev.opid = CurOp(w1, n, operationKey)]
    ELSE
    LET op == Len(w1.ops) + 1
        w2 == [w1 EXCEPT !.queue[n][operationKey] = <<next>>,
                         !.ops = Append(@, [node |-> n, key |-> operationKey,
                                            args |-> av,
                                            self |-> ClusterGet(w1, n, "leader") = n,
                                            handlers |-> 0, rpcs |-> 0,
                                            finished |-> FALSE, resolved |-> FALSE]),
                         !.ev.attached = TRUE,
                         !.ev.created = TRUE,
                         !.ev.opid = op,
                         !.ev.readLeader = TRUE]
        callback == OwnerCallback(operationKey, next)
        currentLeader == ClusterGet(w2, n, "leader")
    IN
    \* args.unshift throws when args is not an array
    IF ~av.isArr THEN [w2 EXCEPT !.ev.threw = TRUE]
    ELSE IF IsSelf(currentLeader, n)
    THEN InvokeHandler(w2, n, rtype, operationKey, rid, av.l, callback, op)
    ELSE [w2 EXCEPT !.tasks[n] = Append(@, RemoteCallTask(currentLeader, "getsetnx",
                                           ForwardParams(rid, rtype, av.l), callback, op)),
                    !.ev.sched = TRUE]

\* --------------------------------------------------------------- update
IsUndefinedNever(value) == FALSE

\* value === undefined
IsUndefined(value) == value = UNDEF

Update(w, n, rid, rtype, value, next) ==
    IF BadResourceId(rid) THEN SetImmediate(w, n, next, Err("resourceId"))
    ELSE IF BadResourceType(rtype) THEN SetImmediate(w, n, next, Err("notAllowed"))
    ELSE IF IsUndefined(value) THEN SetImmediate(w, n, next, Err("undefinedValue"))
    ELSE
    LET operationKey == OpKey(rtype, rid)
        currentValue == ClusterGet(w, n, operationKey)
        w1 == [w EXCEPT !.ev.read = TRUE, !.ev.seen = currentValue]
    IN
    IF SameValue(currentValue, value)
    THEN SetImmediate([w1 EXCEPT !.ev.short = TRUE], n, next, NoRes)
    ELSE
    LET currentLeader == ClusterGet(w1, n, "leader")
        w2 == [w1 EXCEPT !.ev.readLeader = TRUE]
    IN
    IF IsSelf(currentLeader, n)
    THEN SetImmediate(ClusterSet(w2, n, operationKey, value), n, next, NoRes)
    ELSE [w2 EXCEPT !.tasks[n] = Append(@, RemoteCallTask(currentLeader, "update",
                                           <<rid, rtype, value>>, next, 0)),
                    !.ev.sched = TRUE]

DelUndefined(w, n, rid, rtype, next) == Update(w, n, rid, rtype, UNDEF, next)

\* this.update(resourceId, resourceType, null, next)
Del(w, n, rid, rtype, next) == Update(w, n, rid, rtype, NULL, next)

\* ---------------------------------------------------------- _remoteCall
\* _.keys(this._allowedRemoteCalls): the methods a Peer client exposes
RemoteCallMethods == OwnAllowed

\* (op: ghost, the forwarder's pending operation)
Request(to, method, params, cb, op) ==
    [t |-> "req", to |-> to, method |-> method, params |-> params, cb |-> cb,
     res |-> NoRes, op |-> op]

\* ghost: the execution that owns pending operation op has finished
Finish(w, op) == IF op = 0 THEN w ELSE [w EXCEPT !.ops[op].finished = TRUE]

\* invoke(client): args.push(next); client[method].apply(client, args)
Invoke(w, n, c, method, params, next, op) ==
    IF method \notin RemoteCallMethods
    THEN InvokeCb(Finish(w, op), n, next, Err("methodNotFound"))
    ELSE LET w1 == [w EXCEPT !.net = @ \cup {Request(w.conns[n][c].peer, method, params,
                                                     <<Reply(n, op)>> \o next, op)},
                             !.ev.rpc = TRUE]
         IN IF op # 0 THEN [w1 EXCEPT !.ops[op].rpcs = @ + 1] ELSE w1

PeerOnlineNever(w, n, node) == 0

\* this.peerOnline(node)
PeerOnline(w, n, node) == IF node \in Nodes THEN w.remotes[n][node] ELSE 0

PeerMetaAlways(n, node) == TRUE

\* this.skiff.peerMeta(node), as a truth value
PeerMeta(n, node) == node \in meta[n]

\* this._remote(node): the cached Peer, or a new one when metadata is known
Remote(w, n, node) ==
    IF PeerOnline(w, n, node) = 0 /\ PeerMeta(n, node)
    THEN [w EXCEPT !.conns[n] = Append(@, [peer |-> node, connected |-> FALSE,
                                           waiting |-> <<>>, dropped |-> FALSE]),
                   !.remotes[n][node] = Len(w.conns[n]) + 1,
                   !.ev.opened = TRUE]
    ELSE w

RemoteCall(w, n, node, method, params, next, op) ==
    LET w1 == Remote([w EXCEPT !.ev.cached = PeerOnline(w, n, node)], n, node)
        remote == PeerOnline(w1, n, node)
    IN IF remote = 0 THEN InvokeCb(Finish(w1, op), n, next, Err("noRemote"))
       ELSE IF w1.conns[n][remote].connected
       THEN Invoke(w1, n, remote, method, params, next, op)
       \* remote.once('connect', invoke)
       ELSE [w1 EXCEPT !.conns[n][remote].waiting =
                           Append(@, [method |-> method, params |-> params, cb |-> next,
                                      op |-> op])]

RECURSIVE InvokeAll(_, _, _, _)
InvokeAll(w, n, c, waiting) ==
    IF waiting = <<>> THEN w
    ELSE InvokeAll(Invoke(w, n, c, Head(waiting).method, Head(waiting).params,
                          Head(waiting).cb, Head(waiting).op),
                   n, c, Tail(waiting))

\* the handler invocation r calls the callback it was given, after storing
\* its result under the key when it is a handler that persists
HandlerCallsBack(w, r, res, persist) ==
    LET w0 == [w EXCEPT !.running = @ \ {r}, !.ev.opid = r.op]
        w1 == IF persist THEN ClusterSet(w0, r.node, r.key, res.val) ELSE w0
    IN InvokeCb(Finish(w1, r.op), r.node, r.cb, res)

\* ------------------------------------ registration, construction, close
IsDefinedInAllowed(w, name) == name \in w.allowed

\* typeof Node.prototype[name] !== 'undefined'
IsDefined(w, name) == w.proto[name] # UNDEF

\* Node.attachRemoteCall(name, method)
Attach(w, name, method) ==
    IF IsDefined(w, name) THEN [w EXCEPT !.ev.threw = TRUE]
    ELSE [w EXCEPT !.allowed = @ \cup {name},
                   !.proto[name] = method,
                   !.registered = @ \cup {name}]

ListenerMethodsAll(w) == {k \in PropertyNames : w.proto[k] \notin {UNDEF, "inherited"}}

\* _.pick(this, _.keys(this._allowedRemoteCalls)): the properties the
\* transport server is given
ListenerMethods(w) == {k \in w.allowed : k \in PropertyNames /\ w.proto[k] # UNDEF}

\* function Node: options.transport.listen(port, hostname, methods, ...)
Listen(w, n) ==
    [w EXCEPT !.exposed[n] = [listening |-> TRUE, names |-> ListenerMethods(w),
                              since |-> w.registered]]

\* component c of n is told to close (or stop)
StartClose(w, n, c) ==
    [w EXCEPT !.parts[n][c] = "closing",
              !.closeLog[n] = Append(@, c \o ".close")]

CloseAtOnce(w, n) ==
    StartClose(StartClose(StartClose(w, n, "listener"), n, "gossip"), n, "skiff")

\* Node.prototype.close: this._transportServer.close(function () { ... })
Close(w, n) == StartClose(w, n, "listener")

\* the callback close() gave to component c runs
AfterClosed(w, n, c) ==
    CASE c = "listener" -> StartClose(w, n, "gossip")
      [] c = "gossip" -> StartClose(w, n, "skiff")
      [] c = "skiff" -> [w EXCEPT !.closeLog[n] = Append(@, "next")]

\* ------------------------------------------------------------ the actions
\* ghost: a new API call, and what the latest update/del on the node did to
\* the key the call names
NewCall(w, n, verb, rid, rtype) ==
    LET l == IF w.last[n].key = OpKey(rtype, rid) THEN w.last[n] ELSE NoLast
    IN [w EXCEPT !.calls = Append(@, [node |-> n, verb |-> verb, cnt |-> 0,
                                      res |-> NoRes, threw |-> FALSE, op |-> 0,
                                      key |-> OpKey(rtype, rid), val |-> "",
                                      held |-> FALSE]),
                 !.ev.call = Len(w.calls) + 1,
                 !.ev.rid = rid,
                 !.ev.rtype = rtype,
                 !.ev.prev = IF l.leader THEN l.verb ELSE "none",
                 !.ev.prevVal = l.val,
                 !.ev.prevWrote = l.wrote,
                 !.ev.prevHad = l.had]

EndCall(w, id) ==
    [w EXCEPT !.calls[id].threw = w.ev.threw, !.calls[id].op = w.ev.opid]

\* ghost: remember the update/del call just made on n
SetLast(w, n, verb, rid, rtype, value) ==
    IF OpKey(rtype, rid) \in OpKeys
    THEN [w EXCEPT !.last[n] = [verb |-> verb, key |-> OpKey(rtype, rid), val |-> value,
                                wrote |-> w.ev.wrote,
                                had |-> store[n][OpKey(rtype, rid)].val,
                                leader |-> store[n]["leader"].val = n]]
    ELSE w

\* the embedder calls node.getsetnx(rid, rtype, args, next)
CallGetsetnx(n, rid, rtype, args) ==
    /\ LET id == Len(calls) + 1
           w0 == [NewCall(Begin("getsetnx", n), n, "getsetnx", rid, rtype)
                    EXCEPT !.ev.args = args]
           w1 == EndCall(Getsetnx(w0, n, rid, rtype, ArrayArgs(args), <<User(id)>>), id)
       IN Bounded(w1) /\ Commit(w1)
    /\ UNCHANGED envVars

\* the embedder calls node.update(rid, rtype, value, next)
CallUpdate(n, rid, rtype, value) ==
    /\ LET id == Len(calls) + 1
           w0 == [NewCall(Begin("update", n), n, "update", rid, rtype)
                    EXCEPT !.ev.val = value, !.calls[id].val = value]
           w1 == EndCall(Update(w0, n, rid, rtype, value, <<User(id)>>), id)
           w2 == SetLast(w1, n, "update", rid, rtype, value)
       IN Bounded(w2) /\ Commit(w2)
    /\ UNCHANGED envVars

\* the embedder calls node.del(rid, rtype, next)
CallDel(n, rid, rtype) ==
    /\ LET id == Len(calls) + 1
           w0 == [NewCall(Begin("del", n), n, "del", rid, rtype)
                    EXCEPT !.ev.val = NULL, !.calls[id].val = NULL]
           w1 == EndCall(Del(w0, n, rid, rtype, <<User(id)>>), id)
           w2 == SetLast(w1, n, "del", rid, rtype, NULL)
       IN Bounded(w2) /\ Commit(w2)
    /\ UNCHANGED envVars

\* the next setImmediate callback of node n runs
RunTask(n) ==
    /\ tasks[n] # <<>>
    /\ LET task == Head(tasks[n])
           w0 == [Begin(task.t, n) EXCEPT !.tasks[n] = Tail(@),
                                          !.ev.peer = task.node,
                                          !.ev.method = task.method,
                                          !.ev.opid = task.op]
           w1 == IF task.t = "deliver"
                 THEN InvokeCb(w0, n, task.cb, task.res)
                 ELSE RemoteCall(w0, n, task.node, task.method, task.params, task.cb,
                                 task.op)
       IN Bounded(w1) /\ Commit(w1)
    /\ UNCHANGED envVars

\* the Peer object c of node n emits 'connect'
Connect(n, c) ==
    /\ c \in 1..Len(conns[n])
    /\ ~conns[n][c].connected
    /\ LET w0 == [Begin("connect", n) EXCEPT !.conns[n][c].connected = TRUE,
                                             !.conns[n][c].waiting = <<>>]
           w1 == InvokeAll(w0, n, c, conns[n][c].waiting)
       IN Bounded(w1) /\ Commit(w1)
    /\ UNCHANGED envVars

\* node m.to serves a request: _.pick(this, this._remoteCallMethods)[method]
\* is applied to the parameters followed by the responder
RecvRequest(m) ==
    /\ m \in net
    /\ m.t = "req"
    /\ LET n == m.to
           L == Len(m.params)
           \* getsetnx(resourceId, resourceType, args, next) applied to
           \* params[1], params[2], params[3..], responder
           args == IF L >= 3 THEN DecodeArg(m.params[3]) ELSE NotArray
           next == IF L = 3 THEN m.cb ELSE NotFn
           w0 == [Begin("rpc", n) EXCEPT !.net = @ \ {m},
                                        !.ev.method = m.method,
                                        !.ev.rid = m.params[1],
                                        !.ev.rtype = m.params[2],
                                        !.ev.args = IF m.op # 0 THEN ops[m.op].args.l
                                                    ELSE <<>>,
                                        !.ev.val = IF m.method = "update" /\ L >= 3
                                                   THEN m.params[3] ELSE "",
                                        !.ev.seenArgs = args,
                                        !.ev.seenNext = IsFn(next)]
           w1 == IF m.method = "getsetnx"
                 THEN Getsetnx(w0, n, m.params[1], m.params[2], args, next)
                 ELSE Update(w0, n, m.params[1], m.params[2], m.params[3], m.cb)
       IN Bounded(w1) /\ Commit(w1)
    /\ UNCHANGED envVars

\* the response of a forwarded call arrives: the transport calls `next`
RecvResponse(m) ==
    /\ m \in net
    /\ m.t = "resp"
    /\ LET w0 == [Begin("response", m.to) EXCEPT !.net = @ \ {m}]
           w1 == InvokeCb(Finish(w0, m.op), m.to, m.cb, m.res)
       IN Bounded(w1) /\ Commit(w1)
    /\ UNCHANGED envVars

\* a registered handler finishes: it may store its result under the
\* operationKey it was given, then calls the callback it was given
HandlerDone(r, res, persist) ==
    /\ r \in running
    /\ persist => res.err = "none"
    /\ LET w1 == HandlerCallsBack(Begin("handlerDone", r.node), r, res, persist)
       IN Bounded(w1) /\ Commit(w1)
    /\ UNCHANGED envVars

\* the embedder calls node.getsetnx(rid, rtype, args, next) and the handler
\* it runs calls back before it returns
CallGetsetnxSync(n, rid, rtype, args, res, persist) ==
    /\ persist => res.err = "none"
    /\ LET id == Len(calls) + 1
           w0 == [NewCall(Begin("getsetnx", n), n, "getsetnx", rid, rtype)
                    EXCEPT !.ev.args = args]
           w1 == Getsetnx(w0, n, rid, rtype, ArrayArgs(args), <<User(id)>>)
           r == CHOOSE r \in w1.running : r \notin running
           w2 == EndCall(HandlerCallsBack(w1, r, res, persist), id)
       IN /\ w1.ev.handler
          /\ Bounded(w2) /\ Commit(w2)
    /\ UNCHANGED envVars

\* this._gossipLeader(leaderId)
GossipLeaderAlways(w, n, leaderId) ==
    ClusterSet([w EXCEPT !.ev.readLeader = TRUE,
                         !.ev.seen = ClusterGet(w, n, "leader")],
               n, "leader", leaderId)

\* this._gossipLeader(leaderId): write only what differs from the entry held
GossipLeader(w, n, leaderId) ==
    LET w1 == [w EXCEPT !.ev.readLeader = TRUE,
                        !.ev.seen = ClusterGet(w, n, "leader")]
    IN IF ClusterGet(w1, n, "leader") # leaderId
       THEN ClusterSet(w1, n, "leader", leaderId)
       ELSE w1

AddsGossipPeerWithPort(n, p, hasMeta) == hasMeta

\* peer && peer.id !== this.id && peer.metadata && peer.metadata.gossipPort
AddsGossipPeer(n, p, hasMeta) == p # n /\ hasMeta

\* the Membership Provider elects n (or tells it again): skiff emits 'leader'
OnLeader(n) ==
    /\ elected' = n
    /\ LET w1 == GossipLeader(Begin("leader", n), n, n)
       IN Bounded(w1) /\ Commit(w1)
    /\ UNCHANGED <<meta, gossipPeers>>

\* skiff emits 'joined' or 'reconnected' on n for peer p
OnPeerJoined(n, p, hasMeta) ==
    /\ meta' = IF hasMeta /\ p # n THEN [meta EXCEPT ![n] = @ \cup {p}] ELSE meta
    /\ gossipPeers' = IF AddsGossipPeer(n, p, hasMeta)
                      THEN [gossipPeers EXCEPT ![n] = @ \cup {p}]
                      ELSE gossipPeers
    /\ Commit([Begin("joined", n) EXCEPT !.ev.peer = p, !.ev.gossipPort = hasMeta])
    /\ UNCHANGED elected

\* skiff emits 'left' on n for peer p
RemovePeerGossip(n, p) ==
    /\ meta' = [meta EXCEPT ![n] = @ \ {p}]
    /\ gossipPeers' = [gossipPeers EXCEPT ![n] = @ \ {p}]
    /\ LET c == remotes[n][p]
           w0 == [Begin("left", n) EXCEPT !.remotes[n][p] = 0, !.ev.peer = p]
       \* ghost: the Peer object the entry held is no longer referenced
       IN Commit(IF c # 0 THEN [w0 EXCEPT !.conns[n][c].dropped = TRUE] ELSE w0)
    /\ UNCHANGED elected

\* the gossip engine carries m's newer entry for k to n
Replicate(m, n, k) ==
    /\ m # n
    /\ m \in gossipPeers[n] \/ n \in gossipPeers[m]
    /\ store[m][k].ver > store[n][k].ver
    /\ Commit([Begin("replicate", n) EXCEPT
                 !.store[n][k] = store[m][k],
                 !.last[n] = IF last[n].key = k THEN NoLast ELSE @])
    /\ UNCHANGED envVars

\* the embedder registers a resource type
AttachRemoteCall(name, method) ==
    /\ Commit(Attach([Begin("attach", "") EXCEPT !.ev.rtype = name, !.ev.val = method],
                     name, method))
    /\ UNCHANGED envVars

\* the embedder builds node n: new Node(url, options)
NewNode(n) ==
    /\ ~exposed[n].listening
    /\ Commit(Listen(Begin("construct", n), n))
    /\ UNCHANGED envVars

\* the embedder calls n.close(next), once
CallClose(n) ==
    /\ exposed[n].listening
    /\ closeLog[n] = <<>>
    /\ Commit(Close(Begin("close", n), n))
    /\ UNCHANGED envVars

\* component c of n has closed and calls the callback it was given
ComponentClosed(n, c) ==
    /\ parts[n][c] = "closing"
    /\ LET w0 == [Begin("closed", n) EXCEPT !.parts[n][c] = "closed",
                                            !.closeLog[n] = Append(@, c \o ".closed")]
       IN Commit(AfterClosed(w0, n, c))
    /\ UNCHANGED envVars

\* index.js is loaded and no node is built
Loaded ==
    /\ elected = "none"
    /\ meta = [n \in Nodes |-> {}]
    /\ gossipPeers = [n \in Nodes |-> {}]
    /\ store = [n \in Nodes |-> [k \in StoreKeys |-> [val |-> UNDEF, ver |-> 0]]]
    /\ queue = [n \in Nodes |-> [k \in OpKeys |-> <<>>]]
    /\ remotes = [n \in Nodes |-> [p \in Nodes |-> 0]]
    /\ conns = [n \in Nodes |-> <<>>]
    /\ tasks = [n \in Nodes |-> <<>>]
    /\ net = {}
    /\ running = {}
    /\ calls = <<>>
    /\ ops = <<>>
    /\ last = [n \in Nodes |-> NoLast]
    /\ allowed = {"getsetnx", "update"}
    /\ proto = PrototypeLoaded
    /\ registered = {}
    /\ exposed = [n \in Nodes |-> NotListening]
    /\ parts = [n \in Nodes |-> [c \in Components |-> "running"]]
    /\ closeLog = [n \in Nodes |-> <<>>]
    /\ ev = Ev0("init", "")

\* the embedder registered its resource types and built every node
Built ==
    /\ allowed = OwnAllowed
    /\ proto = [name \in PropertyNames |->
                   IF name \in Registered THEN "h1" ELSE PrototypeLoaded[name]]
    /\ registered = Registered
    /\ exposed = [n \in Nodes |-> [listening |-> TRUE, names |-> RemoteCallMethods,
                                    since |-> Registered]]
    /\ parts = [n \in Nodes |-> [c \in Components |-> "running"]]
    /\ closeLog = [n \in Nodes |-> <<>>]

\* the state after construction, before any membership event
Constructed ==
    /\ elected = "none"
    /\ meta = [n \in Nodes |-> {}]
    /\ gossipPeers = [n \in Nodes |-> {}]
    /\ store = [n \in Nodes |-> [k \in StoreKeys |-> [val |-> UNDEF, ver |-> 0]]]
    /\ queue = [n \in Nodes |-> [k \in OpKeys |-> <<>>]]
    /\ remotes = [n \in Nodes |-> [p \in Nodes |-> 0]]
    /\ conns = [n \in Nodes |-> <<>>]
    /\ tasks = [n \in Nodes |-> <<>>]
    /\ net = {}
    /\ running = {}
    /\ calls = <<>>
    /\ ops = <<>>
    /\ last = [n \in Nodes |-> NoLast]
    /\ Built
    /\ ev = Ev0("init", "")

\* the nodes are built and have seen each other join; either no leader was
\* elected yet, or A was and its 'leader' entry has reached every node
Init ==
    /\ meta = [n \in Nodes |-> Nodes \ {n}]
    /\ gossipPeers = [n \in Nodes |-> Nodes \ {n}]
    /\ elected \in {"none", "A"}
    /\ store = [n \in Nodes |-> [k \in StoreKeys |->
                  IF k = "leader" /\ elected = "A"
                  THEN [val |-> "A", ver |-> 1]
                  ELSE [val |-> UNDEF, ver |-> 0]]]
    /\ queue = [n \in Nodes |-> [k \in OpKeys |-> <<>>]]
    /\ remotes = [n \in Nodes |-> [p \in Nodes |-> 0]]
    /\ conns = [n \in Nodes |-> <<>>]
    /\ tasks = [n \in Nodes |-> <<>>]
    /\ net = {}
    /\ running = {}
    /\ calls = <<>>
    /\ ops = <<>>
    /\ last = [n \in Nodes |-> NoLast]
    /\ Built
    /\ ev = Ev0("init", "")

HandlerOutcomes == {Ok(v) : v \in HandlerResults} \cup {Err("handler")}

\* the API calls: at most `max` of them, on the nodes `on`, with their
\* inputs drawn from the given sets
Calls(max, on, ids, types, argLists, values) ==
    /\ Len(calls) < max
    /\ \/ \E n \in on, rid \in ids, rtype \in types, args \in argLists :
             CallGetsetnx(n, rid, rtype, args)
       \/ \E n \in on, rid \in ids, rtype \in types, v \in values :
             CallUpdate(n, rid, rtype, v)
       \/ \E n \in on, rid \in ids, rtype \in types :
             CallDel(n, rid, rtype)

\* the turns that carry a call on: timers, connections, RPC, handlers
Turns ==
    \/ \E n \in Nodes : RunTask(n)
    \/ \E n \in Nodes, c \in 1..MaxConns : Connect(n, c)
    \/ \E m \in net : RecvRequest(m)
    \/ \E m \in net : RecvResponse(m)
    \/ \E r \in running, res \in HandlerOutcomes, persist \in BOOLEAN :
          HandlerDone(r, res, persist)

\* the gossip engine at work
Gossip == \E m \in Nodes, n \in Nodes, k \in StoreKeys : Replicate(m, n, k)

\* valid calls on one key, on every node of a cluster whose membership and
\* leadership are settled
Next ==
    \/ Calls(MaxCalls, Nodes, {"x"}, {"counter"}, ArgLists, {"v1"})
    \/ Turns
    \/ Gossip

Spec == Init /\ [][Next]_vars

\* valid calls on one key, all of them on node A; nothing A forwards finds a
\* peer, so no connection opens and no RPC travels
NextLocal ==
    \/ Calls(MaxLocalCalls, {"A"}, {"x"}, {"counter"}, {<<>>}, {"v1"})
    \/ \E n \in Nodes : RunTask(n)
    \/ \E r \in running, res \in HandlerOutcomes, persist \in BOOLEAN :
          HandlerDone(r, res, persist)
    \/ Gossip

SpecLocal == Init /\ [][NextLocal]_vars

\* valid calls on one key while the Membership Provider keeps electing
NextElect ==
    \/ Calls(MaxElectCalls, Nodes, {"x"}, {"counter"}, {<<"[]">>}, {"v1"})
    \/ Turns
    \/ \E n \in Nodes : OnLeader(n)
    \/ Gossip

SpecElect == Init /\ [][NextElect]_vars

\* calls with arbitrary resourceId, resourceType and value
NextBoundary ==
    \/ Calls(MaxProbeCalls, Nodes, ResourceIds, ResourceTypes, {<<>>, <<"[]">>},
             UpdateValues)
    \/ Turns
    \/ Gossip

SpecBoundary == Init /\ [][NextBoundary]_vars

\* the Membership Provider reports to B that peers left and joined again
Membership ==
    \/ \E p \in Nodes \ {"B"} : RemovePeerGossip("B", p)
    \/ \E p \in Nodes, hasMeta \in BOOLEAN : OnPeerJoined("B", p, hasMeta)

\* valid calls on one key, all of them on node B, while peers leave and join
NextTopology ==
    \/ (Len(calls) < MaxTopoCalls /\ CallGetsetnx("B", "x", "counter", <<"[]">>))
    \/ (Len(calls) < MaxTopoCalls /\ CallUpdate("B", "x", "counter", "v1"))
    \/ Turns
    \/ Membership
    \/ Gossip

SpecTopology == Init /\ [][NextTopology]_vars

\* calls whose args survive two forwards (args = [ [ [] ] ]: each forward
\* spreads one level), while the Membership Provider keeps electing
NextChain ==
    \/ \E n \in Nodes :
          Len(calls) < MaxChainCalls /\ CallGetsetnx(n, "x", "counter", <<"[[]]">>)
    \/ \E n \in Nodes :
          Len(calls) < MaxChainCalls /\ CallUpdate(n, "x", "counter", "v1")
    \/ Turns
    \/ \E n \in Nodes : OnLeader(n)
    \/ Gossip

SpecChain == Init /\ [][NextChain]_vars

\* valid calls on one key, update with a value, with undefined and with null
NextValues ==
    \/ Calls(MaxValueCalls, Nodes, {"x"}, {"counter"}, {<<"[]">>}, {"v1", UNDEF, NULL})
    \/ Turns
    \/ Gossip

SpecValues == Init /\ [][NextValues]_vars

\* calls that end on every path: rejected, answered from the store, acked,
\* executed by a handler that calls back at once or later, forwarded
NextAsync ==
    \/ Calls(MaxAsyncCalls, Nodes, {"x", ""}, {"counter"}, {<<"[]">>}, {"v1", UNDEF})
    \/ \E n \in Nodes, res \in HandlerOutcomes, persist \in BOOLEAN :
          /\ Len(calls) < MaxAsyncCalls
          /\ CallGetsetnxSync(n, "x", "counter", <<"[]">>, res, persist)
    \/ Turns
    \/ Gossip

SpecAsync == Init /\ [][NextAsync]_vars

\* updates of one key to v1 and to null on both nodes, replication lagging
\* as it may; no getsetnx, so no handler runs
NextLag ==
    \/ \E n \in Nodes, v \in {"v1", NULL} :
          Len(calls) < MaxLagCalls /\ CallUpdate(n, "x", "counter", v)
    \/ \E n \in Nodes : RunTask(n)
    \/ \E n \in Nodes, c \in 1..MaxConns : Connect(n, c)
    \/ \E m \in net : RecvRequest(m)
    \/ \E m \in net : RecvResponse(m)
    \/ Gossip

SpecLag == Init /\ [][NextLag]_vars

\* the embedder registers resource types, builds the nodes and closes them
NextSetup ==
    \/ \E name \in AttachNames, method \in Handlers : AttachRemoteCall(name, method)
    \/ \E n \in Nodes : NewNode(n)
    \/ \E n \in Nodes : CallClose(n)
    \/ \E n \in Nodes, c \in Components : ComponentClosed(n, c)

SpecSetup == Loaded /\ [][NextSetup]_vars

\* valid calls on two operation keys of one resource type: every verb on
\* the leader, getsetnx on the follower; replication lags throughout
NextKeys ==
    \/ Calls(MaxKeyCalls, {"A"}, KeyIds, {"counter"}, {<<"[]">>}, {"v1"})
    \/ \E rid \in KeyIds :
          Len(calls) < MaxKeyCalls /\ CallGetsetnx("B", rid, "counter", <<"[]">>)
    \/ Turns

SpecKeys == Init /\ [][NextKeys]_vars

\* ------------------------------------------------------------ the claims
\* the getsetnx calls that joined pending operation op
Callers(op) == {i \in 1..Len(calls) : calls[i].op = op}
Completed(i) == calls[i].cnt > 0
\* the executions started for pending operation op
Executions(op) == ops[op].handlers + ops[op].rpcs
\* pending operations of one node and key
SameKey(a, b) == ops[a].node = ops[b].node /\ ops[a].key = ops[b].key

\* C1 as stated: the callers coalesced on one pending operation are served
\* by exactly one handler invocation when the node's 'leader' entry named
\* the node, by exactly one forwarded getsetnx RPC otherwise, and they all
\* receive the same result.
C1_ExactlyOneExecution ==
    \A op \in 1..Len(ops) : \A i \in Callers(op) :
        Completed(i) =>
            /\ IF ops[op].self
               THEN ops[op].handlers = 1 /\ ops[op].rpcs = 0
               ELSE ops[op].handlers = 0 /\ ops[op].rpcs = 1
            /\ \A j \in Callers(op) : Completed(j) => calls[j].res = calls[i].res

\* C1 amended: while a pending operation of a node and key is unresolved no
\* second one is started; a pending operation gets at most one execution,
\* a handler invocation when the node's 'leader' entry named the node and a
\* forwarded RPC otherwise; its callers all receive the same result, and
\* when they have one, exactly one execution was started, or none was and
\* the result is the error of _remoteCall finding no peer.
C1_Coalescing ==
    \A op \in 1..Len(ops) :
        /\ \A earlier \in 1..(op - 1) : SameKey(earlier, op) => ops[earlier].resolved
        /\ IF ops[op].self
           THEN ops[op].handlers <= 1 /\ ops[op].rpcs = 0
           ELSE ops[op].handlers = 0 /\ ops[op].rpcs <= 1
        /\ \A i \in Callers(op) :
              Completed(i) =>
                  /\ \A j \in Callers(op) : Completed(j) => calls[j].res = calls[i].res
                  /\ \/ Executions(op) = 1
                     \/ Executions(op) = 0 /\ calls[i].res = Err("noRemote")

\* two callers coalesced on a follower were served by one RPC
C1_Witness ==
    \E op \in 1..Len(ops) :
        /\ ops[op].rpcs = 1
        /\ Cardinality(Callers(op)) = 2
        /\ \A i \in Callers(op) : Completed(i) /\ calls[i].res = Ok("v1")

\* how often the completion of call i sits in the queue of its key, and in
\* the setImmediate queue of its node
InQueue(i) ==
    LET q == queue[calls[i].node][ops[calls[i].op].key]
    IN Cardinality({p \in 1..Len(q) : q[p] = <<User(i)>>})
InTasks(i) ==
    LET q == tasks[calls[i].node]
    IN Cardinality({p \in 1..Len(q) : q[p].t = "deliver" /\ q[p].cb = <<User(i)>>})

\* C2: the completion of every caller of a pending operation is invoked
\* exactly once: it waits in the queue, or is scheduled, or has run once;
\* when the owning execution finishes the queue is resolved and removed with
\* no caller left in it, and a getsetnx joins only an operation whose
\* execution has not finished, creating a new one otherwise.
C2_PendingLifecycle ==
    /\ \A op \in 1..Len(ops) : \A i \in Callers(op) :
          /\ InQueue(i) + InTasks(i) + calls[i].cnt = 1
          /\ ops[op].finished => ops[op].resolved /\ InQueue(i) = 0
    /\ \A op \in 1..Len(ops) :
          ops[op].finished /\ CurOp(World, ops[op].node, ops[op].key) = op
              => queue[ops[op].node][ops[op].key] = <<>>
    /\ ev.attached => ~ops[ev.opid].finished
    /\ ev.created => \A earlier \in 1..(ev.opid - 1) :
                         SameKey(earlier, ev.opid) => ops[earlier].resolved

\* after a pending operation finished and its caller was called back, a later
\* getsetnx for the key started a new execution
C2_Witness ==
    \E a \in 1..Len(ops), b \in 1..Len(ops) :
        /\ a < b
        /\ SameKey(a, b)
        /\ ops[a].finished
        /\ \E i \in Callers(a) : calls[i].cnt = 1
        /\ Callers(b) # {}
        /\ ops[b].handlers = 1

\* the turn just taken was an API call of the embedder
ApiCall == ev.op \in {"getsetnx", "update", "del"}
\* the turn just taken ran getsetnx / update for a request a peer forwarded
RpcOf(method) == ev.op = "rpc" /\ ev.method = method
\* the node's own copy of the 'leader' entry names the node itself
BelievesLeader(n) == store[n]["leader"].val = n
\* the task the turn appended last to its node's setImmediate queue
LastTask == tasks[ev.node][Len(tasks[ev.node])]
\* the turn started nothing: no pending operation, no handler, no forward,
\* no connection, no RPC
StartedNothing ==
    /\ ~ev.attached /\ ~ev.created /\ ~ev.handler
    /\ ~ev.sched /\ ~ev.opened /\ ~ev.rpc

\* the value the node of the turn holds under the key the turn names
HeldValue == store[ev.node][OpKey(ev.rtype, ev.rid)].val

\* C5: a valid getsetnx on a node whose store holds a value other than
\* null / undefined under the key schedules the caller's completion with
\* that value and starts nothing: no pending operation, no handler, no
\* forward, no RPC, on leader and follower alike; so does the getsetnx run
\* for a forwarded call that arrived with its completion.
C5_CacheFastPath ==
    (/\ ev.op = "getsetnx" \/ (RpcOf("getsetnx") /\ ev.seenNext)
     /\ OpKey(ev.rtype, ev.rid) \in OpKeys
     /\ HeldValue \notin {NULL, UNDEF})
    => /\ ev.fast
       /\ StartedNothing
       /\ ~ev.wrote /\ ~ev.threw
       /\ tasks[ev.node] # <<>>
       /\ LastTask.t = "deliver"
       /\ LastTask.res = Ok(HeldValue)
       /\ IF ev.op = "getsetnx"
          THEN LastTask.cb = <<User(ev.call)>>
          ELSE Head(LastTask.cb).t = "reply"

\* a follower answered a getsetnx from its replica of the value
C5_Witness ==
    /\ ev.op = "getsetnx"
    /\ ev.fast
    /\ ev.node = "B"
    /\ store["B"]["leader"].val = "A"
    /\ LastTask = DeliverTask(<<User(ev.call)>>, Ok("v1"))

\* C9 as stated: the getsetnx a forwarded call runs on the receiving node is
\* bound to the args list the owner was called with, whatever its length,
\* and to a completion that carries the result back.
C9_ForwardPreservesCall ==
    RpcOf("getsetnx") => ev.seenArgs = ArrayArgs(ev.args) /\ ev.seenNext

\* the turn ran update (or del) and wrote an operation entry
WroteEntry ==
    /\ ev.op \in {"update", "del"} \/ RpcOf("update")
    /\ ev.wrote
    /\ ev.wroteKey \in OpKeys

\* C3 as stated: a getsetnx handler is executed only on the node the
\* Membership Provider elected last, also while the 'leader' entry has not
\* converged.
C3_HandlerOnElectedLeader ==
    ev.handler => ev.node = elected

\* C3 amended: a getsetnx handler is executed only on a node whose own copy
\* of the 'leader' entry names that node; a node whose copy names anything
\* else schedules a forward for the pending operation it creates and
\* executes nothing.
C3_HandlerWhereLeaderEntryIsSelf ==
    /\ ev.handler => BelievesLeader(ev.node) /\ ~ev.sched
    /\ (ev.created /\ ~ev.threw /\ ~BelievesLeader(ev.node))
           => ev.sched /\ ~ev.handler

\* a forwarded getsetnx ran its handler on the elected leader
C3_Witness ==
    /\ RpcOf("getsetnx")
    /\ ev.handler
    /\ ev.node = elected

\* C4 as stated: update and del write an operation entry only on the node
\* that is the elected leader at that moment.
C4_WriteOnElectedLeader ==
    WroteEntry => ev.node = elected

\* C4 amended: update and del write an operation entry only on a node whose
\* own copy of the 'leader' entry names that node, and such a node writes
\* whenever the value differs from the one it holds; any other node
\* schedules a forward and writes nothing.
C4_WriteWhereLeaderEntryIsSelf ==
    /\ WroteEntry => BelievesLeader(ev.node) /\ ~ev.sched
    /\ ((ev.op \in {"update", "del"} \/ RpcOf("update")) /\ ev.readLeader)
          => IF BelievesLeader(ev.node)
             THEN ev.wrote /\ ev.wroteKey = OpKey(ev.rtype, ev.rid)
             ELSE ev.sched /\ ~ev.wrote

\* a forwarded update wrote the entry on the elected leader
C4_Witness ==
    /\ RpcOf("update")
    /\ WroteEntry
    /\ ev.node = elected
    /\ store[ev.node]["counter~x"].val = "v1"

\* C6 as stated: for a resourceType that was not registered, getsetnx,
\* update and del schedule the caller's completion with an error, read and
\* write nothing in the store, create no pending operation, open no
\* connection and forward nothing.
C6_UnregisteredTypeRejected ==
    (ApiCall /\ ev.rtype \notin Registered)
    => /\ ev.immediate \in {"resourceId", "notAllowed"}
       /\ ~ev.read /\ ~ev.wrote
       /\ StartedNothing

\* C7: for a resourceId that is the empty string or not a string, getsetnx,
\* update and del schedule the caller's completion with the resourceId
\* error and do nothing else: no store read or write, no pending operation,
\* no connection, no forward, no RPC.
C7_BadResourceIdRejected ==
    (ApiCall /\ (ev.rid = "" \/ ev.rid \in NonStrings))
    => /\ ev.immediate = "resourceId"
       /\ LastTask = DeliverTask(<<User(ev.call)>>, Err("resourceId"))
       /\ ~ev.read /\ ~ev.wrote /\ ~ev.threw
       /\ StartedNothing

\* del with the empty resourceId on the leader was rejected
C7_Witness ==
    /\ ev.op = "del"
    /\ ev.rid = ""
    /\ ev.rtype = "counter"
    /\ BelievesLeader(ev.node)
    /\ ev.immediate = "resourceId"

\* the turn was update(id, type, v) on a node that believes itself leader,
\* and the latest call on that node for the key, with no write to the key
\* since, was update(id, type, v) as well, made as leader
SecondOfTwoUpdates ==
    /\ ev.op = "update"
    /\ ev.val # UNDEF
    /\ BelievesLeader(ev.node)
    /\ ev.prev = "update"
    /\ ev.prevVal = ev.val

\* C8 as stated: two consecutive update(id, type, v) on the leader write the
\* store exactly once: the first writes, the second acks without writing.
C8_ExactlyOneWrite ==
    SecondOfTwoUpdates
    => /\ ev.prevWrote
       /\ ~ev.wrote /\ ev.short /\ ev.immediate = "none"

\* C8 amended: two consecutive update(id, type, v) on the leader write the
\* store at most once: the second never writes and acks with no error; the
\* first writes exactly when the key did not hold v already.
C8_AtMostOneWrite ==
    SecondOfTwoUpdates
    => /\ ev.prevWrote <=> ev.prevHad # ev.val
       /\ ~ev.wrote /\ ev.short /\ StartedNothing
       /\ LastTask = DeliverTask(<<User(ev.call)>>, NoRes)

\* the first update wrote v1 and the second acked without writing
C8_Witness ==
    /\ SecondOfTwoUpdates
    /\ ev.prevWrote
    /\ ev.short
    /\ store[ev.node]["counter~x"].val = "v1"

\* the turn was getsetnx(id, type, args) on a node that believes itself
\* leader, and the latest update/del on that node for the key, with no
\* write to the key since, was del(id, type), made as leader
GetsetnxAfterDel ==
    /\ ev.op = "getsetnx"
    /\ BelievesLeader(ev.node)
    /\ ev.prev = "del"

\* C10 as stated: on the leader a getsetnx after del does not return the
\* value stored before the del: it takes the miss path and runs the handler.
C10_MissRunsHandler ==
    GetsetnxAfterDel => ~ev.fast /\ ev.handler

\* C10 amended: on the leader a getsetnx after del never takes the cache
\* fast path (it reads null); it runs the handler, unless a getsetnx for
\* the key is still pending, and then it joins that one without running
\* the handler again.
C10_MissAfterDel ==
    GetsetnxAfterDel
    => /\ ~ev.fast /\ ev.seen = NULL
       /\ ev.attached
       /\ ev.handler <=> ev.created
       /\ ~ev.created => ~ops[ev.opid].finished /\ Callers(ev.opid) # {ev.call}

\* update stored v1, del removed it, and the getsetnx that followed ran the
\* handler
C10_Witness ==
    /\ GetsetnxAfterDel
    /\ ev.prevHad = "v1"
    /\ ev.prevWrote
    /\ ev.handler

\* the Peer objects node n created for peer p
ConnsTo(n, p) == {c \in 1..Len(conns[n]) : conns[n][c].peer = p}

\* C11 as stated: when the Membership Provider reports a peer as left, the
\* node discards the cached connection of that peer and fails the calls
\* waiting for its 'connect', so that none is left waiting on it.
C11_DepartureFailsWaiters ==
    ev.op = "left"
    => /\ remotes[ev.node][ev.peer] = 0
       /\ \A c \in ConnsTo(ev.node, ev.peer) : conns[ev.node][c].waiting = <<>>

\* nothing is left to run: no timer, no message in flight, no handler at
\* work, no call waiting for a connection to come up
Quiescent ==
    /\ net = {} /\ running = {}
    /\ \A n \in Nodes :
          /\ tasks[n] = <<>>
          /\ \A c \in 1..Len(conns[n]) : conns[n][c].waiting = <<>>

\* C12 as stated: a call forwarded to a node that forwards it again ends:
\* once nothing is left to run, every caller has received a result or an
\* error.
C12_ForwardChainEnds ==
    Quiescent => \A i \in 1..Len(calls) : Completed(i)

\* C14: a 'leader' notification writes the node's identity to its
\* 'leader' entry exactly when the entry held anything else, and leaves
\* the entry equal to the identity; so a notification that finds the
\* identity there writes nothing, and repeated notifications with no other
\* change of the entry in between write at most once.
C14_LeaderWriteOnlyOnChange ==
    ev.op = "leader"
    => /\ ev.readLeader
       /\ ev.wrote <=> ev.seen # ev.node
       /\ ev.wrote => ev.wroteKey = "leader"
       /\ store[ev.node]["leader"].val = ev.node

\* B, which wrote its identity on an earlier notification, is notified
\* again and writes nothing
C14_Witness ==
    /\ ev.op = "leader"
    /\ ev.node = "B"
    /\ ev.seen = "B"
    /\ ~ev.wrote

\* C13 as stated: with A leader and B follower and no value cached, the
\* getsetnx('x', 'counter', []) B forwards is served on A by the handler (or
\* joins the execution A has under way), with a completion that carries
\* A's result back to B's caller.
C13_FollowerCallServedByLeader ==
    (/\ RpcOf("getsetnx")
     /\ ev.args = <<>>
     /\ BelievesLeader(ev.node)
     /\ HeldValue \in {NULL, UNDEF})
    => /\ ev.seenNext /\ ~ev.threw
       /\ ev.attached
       /\ ev.created => ev.handler

\* the core methods C15 lists
CoreMethods == {"getsetnx", "update", "del", "join", "leave", "open", "close"}
\* the step was an attachRemoteCall that threw and changed nothing
AttachRejected ==
    /\ ev'.threw
    /\ allowed' = allowed /\ proto' = proto /\ registered' = registered
\* the step was an attachRemoteCall that marked the name as allowed and
\* bound the handler to it, and changed nothing else
AttachAccepted ==
    /\ ~ev'.threw
    /\ allowed' = allowed \cup {ev'.rtype}
    /\ proto' = [proto EXCEPT ![ev'.rtype] = ev'.val]

\* C15 as stated: attachRemoteCall(name, handler) fails and changes nothing
\* when name is already registered or names a core method (getsetnx,
\* update, del, join, leave, open, close); for every other name it marks
\* the name as allowed and binds the handler.
C15_RejectsRegisteredAndCoreOnly ==
    [][ev'.op = "attach"
       => IF ev'.rtype \in registered \cup CoreMethods
          THEN AttachRejected ELSE AttachAccepted]_vars

\* C15 amended: attachRemoteCall(name, handler) fails and changes nothing
\* when Node.prototype already has a member of that name: a registered
\* handler, any method the module defines (public or private), or a member
\* inherited from EventEmitter or Object; for every other name it marks the
\* name as allowed and binds the handler.
C15_RejectsEveryDefinedName ==
    [][ev'.op = "attach"
       => IF ev'.rtype \in registered \cup NodePrototype \cup EventEmitterPrototype
                              \cup ObjectPrototype
          THEN AttachRejected ELSE AttachAccepted]_vars

\* with 'lock' registered, registering 'emit' was rejected
C15_Witness ==
    /\ ev.op = "attach"
    /\ ev.rtype = "emit"
    /\ ev.threw
    /\ registered = {"lock"}
    /\ proto["lock"] \in Handlers
    /\ proto["emit"] = "inherited"

\* C16: the transport server of a node exposes the names that were
\* registered when the node was built plus getsetnx and update, and nothing
\* else; what is registered later is not added to it.
C16_ListenerExposesSnapshot ==
    \A n \in Nodes :
        exposed[n].listening
        => exposed[n].names = exposed[n].since \cup {"getsetnx", "update"}

\* 'lock' was registered after A was built with 'counter', and A does not
\* expose it
C16_Witness ==
    /\ exposed["A"].listening
    /\ exposed["A"].names = {"getsetnx", "update", "counter"}
    /\ registered = {"counter", "lock"}

\* the stages of close(), in the order C17 states
CloseOrder ==
    <<"listener.close", "listener.closed", "gossip.close", "gossip.closed",
      "skiff.close", "skiff.closed", "next">>

\* C17: close() starts the listener's close first, the gossip stop only
\* after the listener has closed, the Membership Provider's close only after
\* the gossip has stopped, and calls its callback only after the Membership
\* Provider has closed.
C17_CloseInOrder ==
    \A n \in Nodes :
        /\ Len(closeLog[n]) <= Len(CloseOrder)
        /\ closeLog[n] = SubSeq(CloseOrder, 1, Len(closeLog[n]))

\* a close() ran to its callback
C17_Witness ==
    \E n \in Nodes :
        /\ closeLog[n] = CloseOrder
        /\ \A c \in Components : parts[n][c] = "closed"

\* the turn was update(id, type, undefined): it scheduled the caller's
\* completion with the error and did nothing else
UndefinedRejected ==
    (ev.op = "update" /\ ev.val = UNDEF)
    => /\ ev.immediate = "undefinedValue"
       /\ LastTask = DeliverTask(<<User(ev.call)>>, Err("undefinedValue"))
       /\ ~ev.read /\ ~ev.readLeader /\ ~ev.wrote /\ ~ev.threw
       /\ StartedNothing

\* C19 as stated: update with undefined is rejected with an error, writes
\* nothing and forwards nothing, on leader and follower alike; and no
\* update deletes: none writes null to the store or forwards null.
C19_DeletionOnlyThroughDel ==
    /\ UndefinedRejected
    /\ ev.op = "update" => /\ ~(ev.wrote /\ HeldValue = NULL)
                           /\ ~(ev.sched /\ ev.val = NULL)

\* C19 amended: update with undefined is rejected with an error, writes
\* nothing and forwards nothing, on leader and follower alike; update with
\* null is accepted and deletes exactly as del does: a node whose 'leader'
\* entry names it writes null, any other node forwards the null.
C19_UndefinedRejectedNullDeletes ==
    /\ UndefinedRejected
    /\ (ev.op = "update" /\ ev.val = NULL /\ ev.readLeader)
       => IF BelievesLeader(ev.node)
          THEN ev.wrote /\ HeldValue = NULL /\ ~ev.sched
          ELSE /\ ev.sched /\ ~ev.wrote
               /\ LastTask.t = "remoteCall"
               /\ LastTask.method = "update"
               /\ LastTask.params = <<ev.rid, ev.rtype, NULL>>

\* follower B, holding v1 under the key, rejected update with undefined
C19_Witness ==
    /\ ev.op = "update"
    /\ ev.val = UNDEF
    /\ ev.node = "B"
    /\ store["B"]["leader"].val = "A"
    /\ store["B"]["counter~x"].val = "v1"
    /\ ev.immediate = "undefinedValue"

\* C20: the turn in which getsetnx, update or del is called never invokes
\* the caller's completion: on every path the completion is left to a
\* later turn, also when the handler calls back before getsetnx returns.
C20_CompletionInLaterTurn ==
    ApiCall
    => /\ ev.cbs = 0
       /\ calls[ev.call].cnt = 0
       /\ ~ev.threw => \/ InTasks(ev.call) = 1
                       \/ ev.attached \/ ev.sched

\* on the leader the handler called back before getsetnx returned, and the
\* caller's completion waits in the setImmediate queue
C20_Witness ==
    /\ ev.op = "getsetnx"
    /\ ev.handler
    /\ ev.resolved = 1
    /\ ops[ev.opid].finished
    /\ LastTask = DeliverTask(<<User(ev.call)>>, Ok("v1"))
    /\ calls[ev.call].cnt = 0

\* the turn ran update (for the embedder or for a forwarded call) and found
\* the requested value under the key
UpdateFoundSame ==
    /\ ev.op = "update" \/ RpcOf("update")
    /\ ev.read
    /\ ev.seen = ev.val

\* C21: an update that finds the requested value under the key in the
\* node's own copy schedules the success ack and does nothing else: no
\* write, no read of the 'leader' entry, no forward, no connection, no RPC,
\* on leader and follower alike.
C21_UpdateShortCircuit ==
    UpdateFoundSame
    => /\ ev.short
       /\ ~ev.wrote /\ ~ev.readLeader /\ ~ev.threw
       /\ StartedNothing
       /\ HeldValue = ev.val
       /\ LastTask.t = "deliver" /\ LastTask.res = NoRes
       /\ ev.op = "update" => LastTask.cb = <<User(ev.call)>>

\* follower B, whose copy holds v1, acked update(x, counter, v1) at once
C21_Witness ==
    /\ UpdateFoundSame
    /\ ev.op = "update"
    /\ ev.node = "B"
    /\ store["B"]["leader"].val = "A"
    /\ ev.val = "v1"
    /\ ev.short

\* C22 as stated: an update issued on a node other than the elected leader
\* that was acked with success found the requested value in the leader's
\* copy at some moment between the call and the ack.
C22_FollowerAckMeansLeaderHeld ==
    \A i \in 1..Len(calls) :
        (/\ calls[i].verb = "update"
         /\ elected \in Nodes
         /\ calls[i].node # elected
         /\ Completed(i)
         /\ calls[i].res = NoRes)
        => calls[i].held

\* C23: every Peer object a node created is the one cached under its peer
\* id unless a 'left' event for the peer dropped it, so between two 'left'
\* events at most one is created per peer; _remoteCall reuses a cached
\* connection, connected or not, and otherwise creates one exactly when the
\* Membership Provider has metadata for the peer; after a 'left' event the
\* cache entry is absent.
C23_OneConnectionPerPeer ==
    /\ \A n \in Nodes : \A c \in 1..Len(conns[n]) :
          conns[n][c].dropped <=> remotes[n][conns[n][c].peer] # c
    /\ ev.op = "left" => remotes[ev.node][ev.peer] = 0
    /\ (ev.op = "remoteCall" /\ ev.peer \in Nodes)
       => IF ev.cached # 0
          THEN ~ev.opened /\ remotes[ev.node][ev.peer] = ev.cached
          ELSE /\ ev.opened <=> ev.peer \in meta[ev.node]
               /\ ev.opened => /\ remotes[ev.node][ev.peer] = Len(conns[ev.node])
                                /\ ~conns[ev.node][Len(conns[ev.node])].connected

\* B forwarded a second call while its connection to A was still
\* connecting: both wait on the one connection
C23_Witness ==
    /\ ev.op = "remoteCall"
    /\ ev.node = "B" /\ ev.peer = "A"
    /\ ev.cached = 1 /\ ~ev.opened
    /\ Len(conns["B"]) = 1
    /\ Len(conns["B"][1].waiting) = 2

\* C24: a 'joined' or 'reconnected' event adds the peer to the node's
\* gossip peers exactly when the peer is not the node itself and carries
\* metadata with a gossip port, and changes no other gossip membership, so
\* a node is never its own gossip peer; a 'left' event removes the peer
\* from the node's gossip peers and empties its entry in the Peer Registry.
C24_GossipMirrorsMembership ==
    [][/\ ev'.op = "joined"
          => gossipPeers' =
                [gossipPeers EXCEPT ![ev'.node] =
                    IF ev'.peer # ev'.node /\ ev'.gossipPort
                    THEN @ \cup {ev'.peer} ELSE @]
       /\ ev'.op = "left"
          => /\ gossipPeers' = [gossipPeers EXCEPT ![ev'.node] = @ \ {ev'.peer}]
             /\ remotes' = [remotes EXCEPT ![ev'.node][ev'.peer] = 0]
       /\ \A n \in Nodes : n \notin gossipPeers'[n]]_vars

\* B, left with no gossip peer, was told that B itself joined, with a
\* gossip port, and added nothing
C24_Witness ==
    /\ ev.op = "joined"
    /\ ev.node = "B" /\ ev.peer = "B"
    /\ ev.gossipPort
    /\ gossipPeers["B"] = {}

\* C25 as stated: the handler a getsetnx miss runs on the leader is applied
\* to the resourceId followed by the args of the call (and the callback);
\* the turn that invokes it writes nothing to the store.
C25_HandlerGetsIdAndArgs ==
    /\ \A r \in running : Head(r.params) = r.rid /\ Tail(r.params) = r.args
    /\ ev.handler => ~ev.wrote

\* C26 as stated: getsetnx never calls one of the node's own methods as a
\* handler, and a getsetnx or update whose resourceType is the core verb
\* 'getsetnx' or 'update' is rejected with the error before the store is
\* read.
C26_NeverRunsOwnMethod ==
    (ApiCall \/ ev.op = "rpc")
    => /\ ~ev.selfCall
       /\ ev.rtype \in {"getsetnx", "update"}
             => ~ev.read /\ (ApiCall => ev.immediate = "notAllowed")

\* what a step leaves alone on node n when it concerns operation key K: the
\* waiter list of every other key, and every pending operation of another
\* key (no execution started for it, none finished, none resolved)
OtherKeysUntouched(n, K) ==
    /\ \A k \in OpKeys \ {K} : queue'[n][k] = queue[n][k]
    /\ \A i \in 1..Len(ops) :
          ops[i].node = n /\ ops[i].key # K
              => /\ ops'[i].finished = ops[i].finished
                 /\ ops'[i].resolved = ops[i].resolved
                 /\ ops'[i].handlers = ops[i].handlers
    /\ \A r \in running : r.node = n /\ r.key # K => r \in running'

\* the step is a getsetnx / update / del call of the embedder
CallStep == Len(calls') = Len(calls) + 1

\* C27: key independence. A getsetnx call on key K is answered from the
\* node's copy of K when it holds a value, starts its own pending operation
\* exactly when no operation is pending on K itself, and joins otherwise,
\* whatever is pending on other keys; update and del never wait in a queue;
\* a call on K, and a step that resolves the pending operation of K, leave
\* the waiter lists and pending operations of every other key of the node
\* as they were, and no step touches the waiter lists of two keys.
C27_KeyIndependence ==
    [][/\ CallStep =>
             LET c == calls'[ev'.call]
                 n == c.node
                 K == c.key
             IN /\ OtherKeysUntouched(n, K)
                /\ c.verb = "getsetnx" =>
                      IF IsCached(store[n][K].val)
                      THEN ev'.fast /\ ~ev'.attached
                      ELSE /\ ev'.attached
                           /\ ev'.created <=> queue[n][K] = <<>>
                /\ c.verb # "getsetnx" => queue' = queue
       /\ \A n \in Nodes : \E K \in OpKeys :
             /\ \A k \in OpKeys \ {K} : queue'[n][k] = queue[n][k]
             /\ ev'.resolved > 0 /\ ev'.node = n => OtherKeysUntouched(n, K)
      ]_vars

\* while the first call's operation on one key was still pending, a later
\* getsetnx on another key of the same node was started, resolved and
\* called back
C27_Witness ==
    \E i \in 1..Len(calls), j \in 1..Len(calls) :
        /\ i < j
        /\ calls[i].node = calls[j].node
        /\ calls[i].key # calls[j].key
        /\ calls[i].verb = "getsetnx" /\ calls[j].verb = "getsetnx"
        /\ calls[i].cnt = 0
        /\ queue[calls[i].node][calls[i].key] # <<>>
        /\ calls[j].cnt = 1
        /\ calls[j].res = Ok("v1")

\* the turn ran _remoteCall for a node it has no cached connection to and
\* the Membership Provider has no metadata for
UnresolvedForward ==
    /\ ev.op = "remoteCall"
    /\ \/ ev.peer \notin Nodes
       \/ remotes[ev.node][ev.peer] = 0 /\ ev.peer \notin meta[ev.node]

\* the last k tasks of the node of the turn
LastTasks(k) ==
    LET q == tasks[ev.node]
    IN {q[p] : p \in (Len(q) - k + 1)..Len(q)}

\* C18: when _remoteCall finds no cached connection and no metadata for the
\* node the 'leader' entry names (or the entry is absent), it creates no
\* connection and sends nothing; the pending operation of a getsetnx is
\* finished and removed and every caller queued on it is scheduled with
\* the same error; the caller of an update is called with the error.
C18_UnresolvedLeader ==
    UnresolvedForward
    => /\ ~ev.opened /\ ~ev.rpc
       /\ IF ev.method = "getsetnx"
          THEN /\ ops[ev.opid].finished /\ ops[ev.opid].resolved
               /\ queue[ev.node][ops[ev.opid].key] = <<>>
               /\ ev.resolved >= 1
               /\ ev.resolved <= Len(tasks[ev.node])
               /\ \A t \in LastTasks(ev.resolved) :
                     t.t = "deliver" /\ t.res = Err("noRemote")
               /\ \A i \in Callers(ev.opid) : InTasks(i) = 1
          ELSE ev.cbs = 1 /\ \E i \in 1..Len(calls) : calls[i].res = Err("noRemote")

\* the 'leader' entry names A, B lost A's metadata, and the two callers
\* coalesced on B were scheduled with the error
C18_Witness ==
    /\ UnresolvedForward
    /\ ev.node = "B"
    /\ ev.peer = "A"
    /\ ev.resolved = 2

====
